---------------------------- MODULE Spec2Model ----------------------------
(***************************************************************************)
(* react-alien-signals: the wrappers of src/src/index.ts over the          *)
(* alien-signals reactive graph (signal, computed, effect, effectScope),   *)
(* and the React hooks built on useSyncExternalStore / useEffect.          *)
(*                                                                         *)
(* The graph ("heap") is one record, so that a whole synchronous call      *)
(* (a write, with the propagation and the effect runs it triggers) is one  *)
(* operator from heap to heap and one action of the state machine.         *)
(* The graph engine is the alien-signals dependency the wrappers call; the *)
(* hooks' host is React, modelled at the external-store contract: render   *)
(* takes a snapshot, commit (un)subscribes, a notification schedules a     *)
(* re-render when the snapshot differs from the committed one.             *)
(***************************************************************************)
EXTENDS Integers, Sequences, FiniteSets, TLC

\* ------------------------------------------------------------------ bounds
MaxVal == 1      \* direct writes draw numbers from 0..MaxVal
MaxCount == 3    \* cap on every counter (effect runs, references, notifications)
MaxTasks == 2    \* cap on setter calls waiting as asynchronous tasks
MaxLen == 2      \* cap on the length of the input of a computed array
MaxDepth == 1    \* cap on batches open inside one another

\* --------------------------------------------------------------- the state
VARIABLES
    g,          \* the heap: signals, computeds, effects, the hooks' cells
    handle,     \* the stop function of createEffect: "none", "live", "stopped"
    scope,      \* the scope of createSignalScope: "none", "live", "stopped"
    hits,       \* changing writes to "a" since useSignalEffect's effect was created
    phase,      \* the component: "unmounted", "mounting", "committed", "rerendered"
    hookValue,  \* what useSignal / useSignalValue returned to the last render
    tasks,      \* setter calls scheduled as asynchronous tasks, in order
    op          \* the last call of the program, where a property is about it

vars == <<g, handle, scope, hits, phase, hookValue, tasks, op>>

\* ------------------------------------------------------------------ values
\* JavaScript values: numbers, undefined, null, and objects compared by
\* reference.  Record equality on this domain is ===  and Object.is.
Num(i) == [k |-> "num", v |-> i, ref |-> 0]
Undef == [k |-> "undef", v |-> 0, ref |-> 0]
Null == [k |-> "null", v |-> 0, ref |-> 0]
NaN == [k |-> "nan", v |-> 0, ref |-> 0]
Obj(i, r) == [k |-> "obj", v |-> i, ref |-> r]

\* ------------------------------------------------------------------- nodes
Signals == {"a", "b", "n"}
Computeds ==
    {"double", "prod", "sum", "boxed", "memo0", "memo1", "dB", "dC", "dD",
     "cyc", "eq", "cond"}
Nodes == Signals \cup Computeds

\* The effects a program of the tests creates, by the function each wraps.
UseEffects == {"eUse0", "eUse1", "eUse2"}
Effects ==
    {"eDerive", "eSc1", "eSc2", "eBridge", "eHook", "eD", "eMix", "eSelf",
     "eThrow", "eEq", "eCond", "eWatch", "eFx"}
        \cup UseEffects

\* What each computed's getter reads, in program order.
Reads(c) ==
    CASE c = "double" -> <<"a">>
      [] c = "prod" -> <<"a", "b">>
      [] c = "sum" -> <<"double", "prod">>
      [] c = "boxed" -> <<"a">>
      [] c \in {"memo0", "memo1"} -> <<"double", "a", "b">>
      [] c \in {"dB", "dC"} -> <<"a">>
      [] c = "dD" -> <<"dB", "dC">>
      [] c = "cyc" -> <<"a", "cyc">>
      [] c = "eq" -> <<"a", "b">>
      [] c = "cond" -> <<"a", "b">>

\* What the getter reads in this run: a() || b() reads b when a is 0 only.
ReadsIn(G, c) ==
    IF c = "cond" /\ G.val["a"] # Num(0) THEN <<"a">> ELSE Reads(c)

Range(s) == {s[i] : i \in 1..Len(s)}

\* The signals node n is computed from.
Roots(n) ==
    IF n \in Signals THEN {n}
    ELSE IF n \in {"prod", "sum", "memo0", "memo1", "eq", "cond"}
    THEN {"a", "b"}
    ELSE {"a"}

\* ------------------------------------------------------------- the heap
InitHeap ==
    [ val |-> [s \in Signals |-> IF s = "n" THEN Num(123) ELSE Num(0)],
      cval |-> [c \in Computeds |-> Undef],
      cflag |-> [c \in Computeds |-> "dirty"],
      cdeps |-> [c \in Computeds |-> {}],
      nextRef |-> 1,
      alive |-> [e \in Effects |-> FALSE],
      edeps |-> [e \in Effects |-> {}],
      eflag |-> [e \in Effects |-> "clean"],
      runs |-> [e \in Effects |-> 0],
      order |-> <<>>,
      queue |-> <<>>,
      owned |-> {},
      hooked |-> "a",
      instNode |-> "a",
      subNode |-> "a",
      cleans |-> 0,
      running |-> {},
      thrown |-> FALSE,
      cleanupThrows |-> FALSE,
      checkFirst |-> FALSE,
      lazy |-> FALSE,
      batchDepth |-> 0,
      leaked |-> FALSE,
      fx |-> [pending |-> FALSE, calls |-> 0, twice |-> FALSE,
              after |-> FALSE, unmounting |-> FALSE, throws |-> FALSE,
              writes |-> FALSE],
      async |-> [value |-> Undef, gen |-> 0, epoch |-> 0],
      arr |-> [input |-> <<>>, slots |-> <<>>, ran |-> {}],
      prev |-> [s \in Signals |-> IF s = "n" THEN Num(123) ELSE Num(0)],
      evals |-> 0,
      glitch |-> FALSE,
      memoScope |-> "none",
      workScope |-> "none",
      effScope |-> "none",
      instValue |-> Undef,
      needsRender |-> FALSE,
      notified |-> 0,
      cleanup |-> FALSE,
      last |-> [s \in Signals |-> IF s = "n" THEN Num(123) ELSE Num(0)],
      snap |-> Undef,
      snapValid |-> FALSE,
      torn |-> FALSE ]

\* The subscribers of node n: computeds and live effects that read it last.
CompSubs(G, n) == {c \in Computeds : n \in G.cdeps[c]}
EffSubs(G, n) == {e \in Effects : G.alive[e] /\ n \in G.edeps[e]}

NodeOrder ==
    <<"a", "b", "n", "double", "prod", "sum", "boxed", "memo0", "memo1",
      "dB", "dC", "dD", "cyc", "eq", "cond">>
EffectOrder ==
    <<"eDerive", "eSc1", "eSc2", "eBridge", "eHook", "eD", "eMix", "eSelf",
      "eThrow", "eUse0", "eUse1", "eUse2", "eEq", "eCond", "eWatch",
      "eFx">>

\* The members of set S in the order of sequence ord.
RECURSIVE Pick(_, _)
Pick(ord, S) ==
    IF ord = <<>> THEN <<>>
    ELSE IF Head(ord) \in S THEN <<Head(ord)>> \o Pick(Tail(ord), S)
    ELSE Pick(Tail(ord), S)

DepSeq(S) == Pick(NodeOrder, S)

RECURSIVE Purge(_, _), Refresh(_, _), ReadAll(_, _, _), CheckDeps(_, _, _)
RECURSIVE MarkPending(_, _), Flush(_), RunEffect(_, _), SignalSet(_, _, _)

\* unwatched(): a computed that lost its last subscriber is marked dirty and
\* drops its own dependencies, which may unwatch those in turn.
Unwatched(G, ns) ==
    {c \in ns \cap Computeds :
        /\ CompSubs(G, c) = {}
        /\ EffSubs(G, c) = {}
        /\ G.cdeps[c] # {}}

PurgeOne(G, ns, c) ==
    Purge([G EXCEPT !.cflag[c] = "dirty", !.cdeps[c] = {}],
          (ns \ {c}) \cup G.cdeps[c])

Purge(G, ns) ==
    IF Unwatched(G, ns) = {} THEN G
    ELSE PurgeOne(G, ns, CHOOSE c \in Unwatched(G, ns) : TRUE)

\* JavaScript's x + y for a number x: NaN unless y is a number too (null
\* does not occur here).
Plus(x, y) == IF y.k = "num" THEN Num(x.v + y.v) ELSE NaN

\* The value a computed's getter returns from the values it read.
GetterValue(c, vs, ref) ==
    CASE c = "double" -> Num(vs[1].v * 2)
      [] c = "prod" -> Num(vs[1].v * vs[2].v)
      [] c = "sum" -> Num(vs[1].v + vs[2].v)
      [] c = "boxed" -> Obj(vs[1].v, ref)
      [] c \in {"memo0", "memo1"} -> Num(vs[1].v + vs[2].v * vs[3].v)
      [] c = "dB" -> Num(vs[1].v + 1)
      [] c = "dC" -> Num(vs[1].v * 2)
      [] c = "dD" -> Num(vs[1].v + vs[2].v)
      [] c = "cyc" -> Plus(vs[1], vs[2])
      [] c = "eq" -> Obj(vs[1].v * vs[2].v, ref)
      [] c = "cond" -> IF vs[1] = Num(0) THEN vs[2] ELSE vs[1]

\* Whether v1 read from dB (a + 1) and v2 read from dC (a * 2) come from
\* two different values of a.
Mixed(v1, v2) == v2.v # 2 * (v1.v - 1)

\* The getter of computed c running on the values vs.  (evals: the runs of
\* the getter of dD, eq or cond since the last write; glitch: whether a
\* function ever saw dB and dC from different values of a.)
Observed(G, c, vs) ==
    IF c = "dD"
    THEN [G EXCEPT !.evals = @ + 1, !.glitch = @ \/ Mixed(vs[1], vs[2])]
    ELSE IF c \in {"eq", "cond"} THEN [G EXCEPT !.evals = @ + 1]
    ELSE G

Flag(G, x) == IF x \in Computeds THEN G.cflag[x] ELSE G.eflag[x]

\* The value node n holds: a signal's value, a computed's cached value.
ValueOf(G, n) == IF n \in Computeds THEN G.cval[n] ELSE G.val[n]

\* shallowPropagate(): the pending subscribers of a changed node are dirty.
ShallowPropagate(G, n) ==
    [G EXCEPT
       !.cflag = [c \in Computeds |->
                    IF c \in CompSubs(G, n) /\ G.cflag[c] = "pending"
                    THEN "dirty" ELSE G.cflag[c]],
       !.eflag = [e \in Effects |->
                    IF e \in EffSubs(G, n) /\ G.eflag[e] = "pending"
                    THEN "dirty" ELSE G.eflag[e]]]

\* updateSignal(), where the installed alien-signals keeps the value a
\* signal had when it was last verified (lazy): a written signal whose value
\* is another one makes its pending subscribers dirty, and one written back
\* to that value does not.  (prev stays as it is in the other engine, which
\* has no such cell.)
UpdateSignal(G, s) ==
    IF G.lazy /\ G.val[s] # G.prev[s]
    THEN ShallowPropagate([G EXCEPT !.prev[s] = G.val[s]], s)
    ELSE G

\* The heap once node n is up to date.
Fresh(G, n) == IF n \in Computeds THEN Refresh(G, n) ELSE UpdateSignal(G, n)

\* Reading the nodes ns in order; computeds are brought up to date first.
ReadNext(G, ns, acc) ==
    ReadAll(G, Tail(ns), Append(acc, ValueOf(G, Head(ns))))

ReadAll(G, ns, acc) ==
    IF ns = <<>> THEN [g |-> G, vs |-> acc]
    ELSE ReadNext(Fresh(G, Head(ns)), ns, acc)

\* updateComputed(): run the getter, relink, and tell the subscribers when
\* the value changed (!==).
Relink(G, c, new) ==
    Purge([G EXCEPT !.cval[c] = new,
                    !.cflag[c] = "clean",
                    !.cdeps[c] = Range(ReadsIn(G, c)),
                    !.nextRef = IF c = "boxed" \/ (c = "eq" /\ new # G.cval[c])
                                THEN @ + 1 ELSE @],
          G.cdeps[c] \ Range(ReadsIn(G, c)))

\* Structural equality of two values: same kind and same content, whatever
\* the reference.
DeepEqual(x, y) == x.k = y.k /\ x.v = y.v

\* Whether the getter's result counts as a change of computed c: another
\* value (!==), and for the equality-gated computed one that is not deeply
\* equal to the published one.
Differs(G, c, new) ==
    IF c = "eq" THEN ~DeepEqual(G.cval[c], new)
    ELSE G.cval[c] # new \/ new = NaN

\* An updateComputed() that tells the subscribers after every run.
UpdateNotifying(G, c, new) == ShallowPropagate(Relink(G, c, new), c)

Update(G, c, new) ==
    IF Differs(G, c, new) THEN ShallowPropagate(Relink(G, c, new), c)
    ELSE Relink(G, c, G.cval[c])

Evaluated(c, r) ==
    Update(Observed(r.g, c, r.vs), c, GetterValue(c, r.vs, r.g.nextRef))

\* startTracking() clears the Dirty flag before the getter runs, so a read
\* of c inside its own getter returns the cached value.
Recompute(G, c) ==
    Evaluated(c, ReadAll([G EXCEPT !.cflag[c] = "clean"], ReadsIn(G, c),
                         <<>>))

\* checkDirty(): bring the dependencies ds of subscriber x up to date, one
\* by one, until one of them turns out changed (x is then dirty).
CheckRest(G, x, ds) ==
    IF Flag(G, x) = "dirty" THEN G ELSE CheckDeps(G, x, Tail(ds))

CheckDeps(G, x, ds) ==
    IF ds = <<>> THEN G ELSE CheckRest(Fresh(G, Head(ds)), x, ds)

\* A computed read: recompute when dirty, verify when pending, else cached.
Verified(G, c) ==
    IF G.cflag[c] = "dirty" THEN Recompute(G, c)
    ELSE [G EXCEPT !.cflag[c] = "clean"]

\* A computed read that runs the getter every time.
RefreshUncached(G, c) == Recompute(G, c)

Refresh(G, c) ==
    IF G.cflag[c] = "dirty" THEN Recompute(G, c)
    ELSE IF G.cflag[c] = "pending"
    THEN Verified(CheckDeps(G, c, DepSeq(G.cdeps[c])), c)
    ELSE G

\* A read of node n outside or inside a tracking context: heap and value.
Valued(G, n) == [g |-> G, v |-> ValueOf(G, n)]

ReadNode(G, n) == Valued(Fresh(G, n), n)

\* The live effects of set S not yet queued, in subscription order.
ToQueue(G, S) == Pick(G.order, S \ Range(G.queue))

\* A propagate() that also queues the effects whose function is running.
MarkedRunning(G, cs, es, f) ==
    [G EXCEPT
       !.cflag = [c \in Computeds |-> IF c \in cs THEN f ELSE G.cflag[c]],
       !.eflag = [e \in Effects |-> IF e \in es THEN f ELSE G.eflag[e]],
       !.queue = @ \o ToQueue(G, es)]

\* The subscribers cs and es get flag f, and the effects are queued; an
\* effect whose function is running (RecursedCheck) is left alone.
Marked(G, cs, es, f) ==
    [G EXCEPT
       !.cflag = [c \in Computeds |-> IF c \in cs THEN f ELSE G.cflag[c]],
       !.eflag = [e \in Effects |->
                    IF e \in es \ G.running THEN f ELSE G.eflag[e]],
       !.queue = @ \o ToQueue(G, es \ G.running)]

CleanCompSubs(G, n) == {c \in CompSubs(G, n) : G.cflag[c] = "clean"}
CleanEffSubs(G, n) == {e \in EffSubs(G, n) : G.eflag[e] = "clean"}

\* A propagate() that leaves one direct subscriber of the signal unmarked.
PropagatePartial(G, s) ==
    MarkPending(Marked(G, CompSubs(G, s) \ {"dC"}, EffSubs(G, s), "dirty"),
                CleanCompSubs(G, s) \ {"dC"})

\* A propagate() that stops at the direct subscribers of the written signal.
MarkPendingShallow(G, ns) == G

\* A propagate() that marks the subscribers of computeds dirty at once.
MarkFromDirty(G, ns, c) ==
    MarkPending(Marked(G, CleanCompSubs(G, c), CleanEffSubs(G, c), "dirty"),
                (ns \ {c}) \cup CleanCompSubs(G, c))

\* propagate(), below the direct subscribers: subscribers of the computeds
\* in ns become pending, transitively; effects among them are queued.
MarkFrom(G, ns, c) ==
    MarkPending(Marked(G, CleanCompSubs(G, c), CleanEffSubs(G, c), "pending"),
                (ns \ {c}) \cup CleanCompSubs(G, c))

MarkPending(G, ns) ==
    IF ns = {} THEN G ELSE MarkFrom(G, ns, CHOOSE c \in ns : TRUE)

\* propagate() from a written signal: direct subscribers are dirty; in the
\* lazy engine they are pending like the others, to be verified against
\* the signal's previous value.
Propagate(G, s) ==
    IF G.lazy
    THEN MarkPending(Marked(G, CleanCompSubs(G, s), CleanEffSubs(G, s),
                            "pending"),
                     CleanCompSubs(G, s))
    ELSE MarkPending(Marked(G, CompSubs(G, s), EffSubs(G, s), "dirty"),
                     CleanCompSubs(G, s))

\* A queued effect runs when dirty, or when pending and verified changed.
VerifiedEffect(G, e) ==
    IF G.eflag[e] = "dirty" THEN RunEffect(G, e)
    ELSE [G EXCEPT !.eflag[e] = "clean"]

RunQueued(G, e) ==
    IF ~G.alive[e] THEN [G EXCEPT !.eflag[e] = "clean"]
    ELSE IF G.eflag[e] = "dirty" THEN RunEffect(G, e)
    ELSE IF G.eflag[e] = "pending"
    THEN VerifiedEffect(CheckDeps(G, e, DepSeq(G.edeps[e])), e)
    ELSE G

\* A flush() that drops the queued effects instead of running them.
FlushDropped(G) ==
    [G EXCEPT !.queue = <<>>, !.eflag = [e \in Effects |-> "clean"]]

\* flush(): run the queued effects in order until the queue is empty.  An
\* exception of an effect function leaves the loop (run() has try/finally
\* and no catch) with the effects behind it still queued.
Flush(G) ==
    IF G.queue = <<>> \/ G.thrown THEN G
    ELSE Flush(RunQueued([G EXCEPT !.queue = Tail(@)], Head(G.queue)))

\* A signal(v) that compares with != : null and undefined are the same.
SignalSetLoose(G, s, v) ==
    IF G.val[s] = v \/ {G.val[s], v} = {Undef, Null} THEN G
    ELSE Flush(Propagate([G EXCEPT !.val[s] = v], s))

\* if (!batchDepth) flush(): inside a batch the queued effects wait.
Settled(G) == IF G.batchDepth > 0 THEN G ELSE Flush(G)

\* A signal(v) that flushes the queued effects inside a batch as well.
SignalSetUnbatched(G, s, v) ==
    IF G.val[s] = v THEN G
    ELSE Flush(Propagate([G EXCEPT !.val[s] = v], s))

\* A signal(v) that propagates and flushes without comparing the values.
SignalSetAlways(G, s, v) == Settled(Propagate([G EXCEPT !.val[s] = v], s))

\* A signal(v) that brings the computed a() || b() up to date at once.
SignalSetEager(G, s, v) ==
    IF G.val[s] = v THEN G
    ELSE Fresh(Settled(Propagate([G EXCEPT !.val[s] = v], s)), "cond")

\* signal(v): store, and when the value changed (!==) propagate and flush.
SignalSet(G, s, v) ==
    IF G.val[s] = v THEN G
    ELSE Settled(Propagate([G EXCEPT !.val[s] = v], s))

\* startBatch(): one more open batch.
startBatch(G) == [G EXCEPT !.batchDepth = @ + 1]

\* endBatch(): if (!--batchDepth) flush().
endBatch(G) == Settled([G EXCEPT !.batchDepth = @ - 1])

\* ------------------------------------------------ src/src/index.ts: core
\* createSignal's writable signal called with a value.  (last, snapValid:
\* records of the call for the properties; the engine never reads them.)
SignalWrite(G, s, v) ==
    SignalSet([G EXCEPT !.last[s] = v,
                        !.evals = 0,
                        !.snapValid = @ /\ s \notin Roots(G.hooked)], s, v)

\* A read of node n inside effect e: the value, and the link n -> e.
Linked(r, e, n) == [g |-> [r.g EXCEPT !.edeps[e] = @ \cup {n}], v |-> r.v]

TrackedRead(G, e, n) == Linked(ReadNode(G, n), e, n)

\* getSnapshot of useSignal / useSignalValue: () => signal().  (snap,
\* torn: the value the previous call returned since the last write, and
\* whether a call ever returned another one.)
Snapshot(G, r) ==
    [g |-> [r.g EXCEPT !.snap = r.v,
                       !.snapValid = TRUE,
                       !.torn = @ \/ (G.snapValid /\ G.snap # r.v)],
     v |-> r.v]

getSnapshot(G) == Snapshot(G, ReadNode(G, G.hooked))

\* A store-change handler that never asks for a re-render.
checkIfSnapshotChangedNever(r) == [r.g EXCEPT !.notified = @ + 1]

\* React's handleStoreChange, the callback handed to subscribe: re-render
\* when the snapshot is not (Object.is) the committed one.
checkIfSnapshotChanged(r) ==
    [r.g EXCEPT !.needsRender = @ \/ (r.v # r.g.instValue),
                !.notified = @ + 1]

\* inst.getSnapshot(): the getSnapshot of the last committed render.
instSnapshot(G) == Snapshot(G, ReadNode(G, G.instNode))

handleStoreChange(G) == checkIfSnapshotChanged(instSnapshot(G))

\* A subscribe effect that reads the node and never calls the callback.
BridgeFnSilent(G, e) ==
    [g |-> TrackedRead(G, e, G.subNode).g, deps |-> {G.subNode}]

\* The effect of subscribe: signal(); callback().  The callback's call of
\* inst.getSnapshot happens inside the effect and is tracked as well.
BridgeFn(G, e) ==
    [g |-> handleStoreChange(TrackedRead(G, e, G.subNode).g),
     deps |-> {G.subNode, G.instNode}]

\* An effect function that reads node n and counts its runs.
TrackFn(G, e, n) == [g |-> TrackedRead(G, e, n).g, deps |-> {n}]

\* An effect function that reads a, and b when a is 0: a() || b().
CondSecond(r, e) ==
    IF r.v = Num(0)
    THEN [g |-> TrackedRead(r.g, e, "b").g, deps |-> {"a", "b"}]
    ELSE [g |-> r.g, deps |-> {"a"}]

CondFn(G, e) == CondSecond(TrackedRead(G, e, "a"), e)

\* doubleSignal(countSignal() * 2)
Derived(r) == [g |-> SignalWrite(r.g, "b", Num(r.v.v * 2)), deps |-> {"a"}]

DeriveFn(G, e) == Derived(TrackedRead(G, e, "a"))

\* A useSignalEffect effect that calls fn outside the tracking context.
HookFnUntracked(G, e) ==
    [g |-> [ReadNode(G, "a").g EXCEPT !.cleanup = TRUE], deps |-> {}]

\* try { call } catch: the caller goes on after the exception.
Caught(G) == [G EXCEPT !.thrown = FALSE]

\* if (cleanup) cleanup(): one more call of the cleanup callback, which may
\* throw.  (cleans counts the calls since the useEffect callback ran.)
CallCleanup(G) ==
    IF G.cleanup
    THEN [G EXCEPT !.cleanup = G.cleanupThrows,
                   !.cleans = @ + 1,
                   !.thrown = G.cleanupThrows]
    ELSE G

\* A useSignalEffect effect that runs fn without calling the cleanup the
\* run before returned.
HookFnNoCleanup(G, e) ==
    [g |-> [TrackFn(G, e, "a").g EXCEPT !.cleanup = TRUE], deps |-> {"a"}]

\* The effect of useSignalEffect: if (cleanup) cleanup(); cleanup = fn().
HookRun(G, e) ==
    IF G.thrown THEN [g |-> G, deps |-> {}]
    ELSE [g |-> [TrackFn(G, e, "a").g EXCEPT !.cleanup = TRUE],
          deps |-> {"a"}]

HookFn(G, e) == HookRun(CallCleanup(G), e)

\* An effect function that reads dB, then dC.
MixObserved(v1, r) ==
    [g |-> [r.g EXCEPT !.glitch = @ \/ Mixed(v1, r.v)], deps |-> {"dB", "dC"}]

MixSecond(r, e) == MixObserved(r.v, TrackedRead(r.g, e, "dC"))

MixFn(G, e) == MixSecond(TrackedRead(G, e, "dB"), e)

\* What a setter is called with: a value, or an updater prev => prev + d.
Plain(v) == [fn |-> FALSE, v |-> v, d |-> 0]
Updater(d) == [fn |-> TRUE, v |-> Undef, d |-> d]
CallUpdater(arg, prev) == Num(prev.v + arg.d)

\* An effect function that calls a setter with an updater on the signal,
\* signal(prev => prev + 1) reading the signal inside the effect, while the
\* value is below the cap.
SelfWritten(r) ==
    [g |-> IF r.v.v <= MaxVal
           THEN SignalWrite(r.g, "a", CallUpdater(Updater(1), r.v))
           ELSE r.g,
     deps |-> {"a"}]

SelfFn(G, e) == SelfWritten(TrackedRead(G, e, "a"))

\* useSignalEffect(fn) with a fn that reads a and returns a cleanup, where
\* fn may throw on a re-run that finds a at 1, and the cleanup may write 0
\* to a.  fx: whether the variable cleanup holds a function, how often
\* that function was called (up to two), whether any cleanup was ever
\* called a second time, whether fn ever ran after the unmount had called
\* the cleanup, and the two choices of the program.

\* The body of the cleanup fn returned.
FxCleanupBody(G) == IF G.fx.writes THEN SignalWrite(G, "a", Num(0)) ELSE G

\* if (cleanup) cleanup();
FxCallCleanup(G) ==
    IF G.fx.pending
    THEN FxCleanupBody([G EXCEPT !.fx.calls = IF @ < 2 THEN @ + 1 ELSE @,
                                 !.fx.twice = @ \/ G.fx.calls >= 1])
    ELSE G

\* cleanup = fn(): the assignment does not happen when fn throws.
FxAssigned(r, e) ==
    IF r.g.fx.throws /\ r.v = Num(1) /\ r.g.runs[e] > 1
    THEN [g |-> [r.g EXCEPT !.thrown = TRUE,
                            !.fx.after = @ \/ r.g.fx.unmounting],
          deps |-> {"a"}]
    ELSE [g |-> [r.g EXCEPT !.fx.pending = TRUE,
                            !.fx.calls = 0,
                            !.fx.after = @ \/ r.g.fx.unmounting],
          deps |-> {"a"}]

\* The effect of useSignalEffect: if (cleanup) cleanup(); cleanup = fn().
FxFn(G, e) == FxAssigned(TrackedRead(FxCallCleanup(G), e, "a"), e)

\* An effect function that reads the signal and throws when it is 1.
ThrowIf(r) == [g |-> [r.g EXCEPT !.thrown = (r.v = Num(1))], deps |-> {"a"}]

ThrowFn(G, e) == ThrowIf(TrackedRead(G, e, "a"))

\* The function each effect wraps: heap after the call, and the nodes read.
EffectFn(G, e) ==
    CASE e = "eSc1" -> TrackFn(G, e, "a")
      [] e = "eSc2" -> TrackFn(G, e, "sum")
      [] e = "eDerive" -> DeriveFn(G, e)
      [] e = "eBridge" -> BridgeFn(G, e)
      [] e = "eHook" -> HookFn(G, e)
      [] e \in UseEffects -> TrackFn(G, e, "a")
      [] e = "eD" -> TrackFn(G, e, "dD")
      [] e = "eMix" -> MixFn(G, e)
      [] e = "eSelf" -> SelfFn(G, e)
      [] e = "eThrow" -> ThrowFn(G, e)
      [] e = "eEq" -> TrackFn(G, e, "eq")
      [] e = "eWatch" -> TrackFn(G, e, "cond")
      [] e = "eCond" -> CondFn(G, e)
      [] e = "eFx" -> FxFn(G, e)

\* A run that keeps the links of the runs before next to those of this one.
TrackedKeeping(old, r, e) == [r.g EXCEPT !.edeps[e] = old \cup r.deps]

\* One run of effect e: run the function with tracking, keep the links of
\* this run only, and release what is no longer read.
Tracked(old, r, e) == Purge([r.g EXCEPT !.edeps[e] = r.deps], old \ r.deps)

\* The effect's function is running from here on.  (checkFirst: whether the
\* installed alien-signals also sets RecursedCheck for the run inside
\* effect(fn); every re-run sets it.)
Started(G, e) ==
    [G EXCEPT !.eflag[e] = "clean",
              !.runs[e] = @ + 1,
              !.running = IF G.runs[e] > 0 \/ G.checkFirst
                          THEN @ \cup {e} ELSE @]

Ended(r, e, was) ==
    [g |-> [r.g EXCEPT !.running = IF was THEN @ ELSE @ \ {e}],
     deps |-> r.deps]

RunEffect(G, e) ==
    Tracked(G.edeps[e],
            Ended(EffectFn(Started(G, e), e), e, e \in G.running), e)

\* createEffect(fn): a new effect, owned by the active scope if any, whose
\* function runs once at once.  (leaked: whether an effect was ever created
\* for a hook or a program handle whose effect before was still running.)
createEffect(G, e, inScope) ==
    RunEffect([G EXCEPT !.alive[e] = TRUE,
                        !.leaked = @ \/ G.alive[e],
                        !.edeps[e] = {},
                        !.eflag[e] = "clean",
                        !.runs[e] = 0,
                        !.order = Append(Pick(@, Range(@) \ {e}), e),
                        !.owned = IF inScope THEN @ \cup {e} ELSE @], e)

\* A stop function that marks the effect stopped and leaves its links.
stopEffectLinked(G, e) == [G EXCEPT !.eflag[e] = "clean"]

\* A stop function that toggles: called on a stopped effect it sets the
\* effect up again.
stopEffectToggle(G, e) ==
    IF ~G.alive[e] THEN createEffect(G, e, FALSE)
    ELSE Purge([G EXCEPT !.alive[e] = FALSE,
                         !.edeps[e] = {},
                         !.runs[e] = 0,
                         !.eflag[e] = "clean",
                         !.order = Pick(@, Range(@) \ {e})], G.edeps[e])

\* The stop function of an effect: unlink it from every dependency.  (runs
\* counts the runs of the live effect, and is 0 while there is none.)
stopEffect(G, e) ==
    IF ~G.alive[e] THEN G
    ELSE Purge([G EXCEPT !.alive[e] = FALSE,
                         !.edeps[e] = {},
                         !.runs[e] = 0,
                         !.eflag[e] = "clean",
                         !.order = Pick(@, Range(@) \ {e})], G.edeps[e])

RECURSIVE StopAll(_, _)
StopAll(G, es) ==
    IF es = <<>> THEN G ELSE StopAll(stopEffect(G, Head(es)), Tail(es))

\* createSignalScope(callback), the callback creating two effects.
createSignalScope(G) ==
    createEffect(createEffect([G EXCEPT !.owned = {}], "eSc1", TRUE), "eSc2", TRUE)

\* A scope stop that stops the first effect of the scope only.
stopScopeFirst(G) ==
    [StopAll(G, SubSeq(Pick(EffectOrder, G.owned), 1, 1)) EXCEPT !.owned = {}]

\* The stop function of a scope: stop every effect it owns.
stopScope(G) == [StopAll(G, Pick(EffectOrder, G.owned)) EXCEPT !.owned = {}]

\* ----------------------------------------------- src/src/index.ts: hooks

\* A setValue whose updater gets the value the last render returned.
setValueRendered(G, s, arg) ==
    IF arg.fn /\ hookValue.k = "num"
    THEN SignalWrite(G, s, CallUpdater(arg, hookValue))
    ELSE SignalWrite(G, s, arg.v)

\* setValue of useSignal.
setValue(G, s, arg) ==
    IF arg.fn THEN SignalWrite(G, s, CallUpdater(arg, ReadNode(G, s).v))
    ELSE SignalWrite(G, s, arg.v)

\* The setter useSetSignal returns.
setSignal(G, s, arg) ==
    IF arg.fn THEN SignalWrite(G, s, CallUpdater(arg, ReadNode(G, s).v))
    ELSE SignalWrite(G, s, arg.v)

\* subscribe of useSignal / useSignalValue: createEffect(...), returning
\* the effect's stop function.
subscribe(G) ==
    createEffect([G EXCEPT !.notified = 0, !.subNode = G.hooked],
                 "eBridge", FALSE)
unsubscribe(G) == stopEffect(G, "eBridge")

\* An updateStoreInstance that commits the rendered snapshot without
\* comparing it to the store.
updateStoreInstanceBlind(G, rendered) ==
    [G EXCEPT !.instValue = rendered, !.instNode = G.hooked]

\* React's updateStoreInstance, after subscribing: commit the rendered
\* snapshot and re-render if the store moved on since the render.
Committed(r, rendered) == [r.g EXCEPT !.needsRender = @ \/ (r.v # rendered)]

updateStoreInstance(G, rendered) ==
    Committed(getSnapshot([G EXCEPT !.instValue = rendered,
                                    !.instNode = G.hooked]), rendered)

\* useSignalEffect's useEffect callback and the cleanup it returns.
signalEffectSetup(G) ==
    createEffect([G EXCEPT !.cleanup = FALSE, !.cleans = 0], "eHook", FALSE)

\* if (cleanup) cleanup(); stop();  -- stop() is not reached when the
\* cleanup throws.
StopUnlessThrown(G, e) == IF G.thrown THEN G ELSE stopEffect(G, e)

signalEffectCleanup(G) == StopUnlessThrown(CallCleanup(G), "eHook")

\* useSignalEffect's useEffect callback for the fn of fx: let cleanup;
\* const stop = createEffect(...).
fxSetup(G) ==
    createEffect([G EXCEPT !.fx.pending = FALSE,
                           !.fx.calls = 0,
                           !.fx.unmounting = FALSE], "eFx", FALSE)

\* ... and the cleanup it returns: if (cleanup) cleanup(); stop();
fxCleanup(G) ==
    stopEffect(FxCallCleanup([G EXCEPT !.fx.unmounting = TRUE]), "eFx")

\* A render of the component: useSyncExternalStore returns the snapshot.
Rendered(r) == [g |-> [r.g EXCEPT !.needsRender = FALSE], v |-> r.v]

renderHook(G) == Rendered(getSnapshot(G))

\* useComputed's useMemo(() => createComputed(getter), [getter]): a render
\* with a new getter creates a new computed in the slot of the computed
\* before the committed one, which no hook refers to any more.
OtherMemo(c) == IF c = "memo0" THEN "memo1" ELSE "memo0"

NewComputed(G, c) ==
    Purge([G EXCEPT !.hooked = c,
                    !.cval[c] = Undef,
                    !.cflag[c] = "dirty",
                    !.cdeps[c] = {}], G.cdeps[c])

useComputed(G, getterChanged) ==
    IF getterChanged THEN renderHook(NewComputed(G, OtherMemo(G.hooked)))
    ELSE renderHook(G)

\* useSignalScope's useMemo(() => createSignalScope(callback), [callback]),
\* the callback creating one effect that reads a signal: a scope is named
\* by the effect it owns.  (memoScope: the scope the committed hook state
\* holds; workScope: the scope of the render in progress; effScope: the
\* scope the committed useEffect cleanup stops.)
FreeScope(G) == CHOOSE e \in UseEffects : ~G.alive[e]

MemoScope(G) ==
    [createEffect(G, FreeScope(G), FALSE) EXCEPT !.workScope = FreeScope(G)]

\* The render: a new scope when the callback is a new function (twice
\* under StrictMode, which calls the useMemo factory twice and keeps one
\* result), the memoized one otherwise.
useSignalScope(G, callbackChanged, strict) ==
    IF ~callbackChanged THEN [G EXCEPT !.workScope = G.memoScope]
    ELSE IF strict THEN MemoScope(MemoScope(G))
    ELSE MemoScope(G)

\* useEffect(() => () => stopScope(), [stopScope]): the cleanup.
scopeCleanup(G) ==
    IF G.effScope = "none" THEN G
    ELSE [stopEffect(G, G.effScope) EXCEPT !.effScope = "none"]

\* ... and the setup, () => () => stopScope(): it registers the cleanup
\* for the memoized stopScope and does nothing else.
scopeSetup(G) == [G EXCEPT !.effScope = G.memoScope]

\* React tears the effect down and sets it up again with unchanged
\* dependencies (StrictMode's second mount of the effects, a hidden
\* subtree shown again): the cleanup, then the setup.
scopeReconnect(G) == scopeSetup(scopeCleanup(G))

\* return stopScope: the memoized stop function, called by the component.
stopScopeReturned(G) ==
    IF G.memoScope = "none" THEN G ELSE stopEffect(G, G.memoScope)

\* The commit of a render: the cleanup of the previous effect when
\* stopScope changed, and the new hook state.
commitScope(G) ==
    IF G.workScope = G.effScope
    THEN [G EXCEPT !.workScope = "none"]
    ELSE [scopeCleanup(G) EXCEPT !.memoScope = G.workScope,
                                 !.effScope = G.workScope,
                                 !.workScope = "none"]

\* Unmounting: the cleanup; the hook state is gone.
unmountScope(G) ==
    [scopeCleanup(G) EXCEPT !.memoScope = "none", !.workScope = "none"]

\* The first render: React's mountSyncExternalStore keeps the snapshot.
Stored(r) ==
    [g |-> [r.g EXCEPT !.instValue = r.v, !.instNode = r.g.hooked],
     v |-> r.v]

mountStore(G) == Stored(renderHook(G))

mountComputed(G) == Stored(renderHook(NewComputed(G, OtherMemo(G.hooked))))

\* After the unmount React drops the hook state: the store instance and
\* the memoized computed are unreachable, like the computed before it.
Dropped(G) ==
    [G EXCEPT !.instValue = Undef,
              !.needsRender = FALSE,
              !.notified = 0,
              !.hooked = "memo1",
              !.instNode = "memo1",
              !.subNode = "memo1",
              !.cval["memo0"] = Undef,
              !.cval["memo1"] = Undef,
              !.cflag["memo0"] = "dirty",
              !.cflag["memo1"] = "dirty"]

unmountComputed(G) == Dropped(unsubscribe(G))

\* The commit after the first render: the effects' setups, in hook order.
commitMount(G, rendered) ==
    signalEffectSetup(updateStoreInstance(subscribe(G), rendered))

\* A commit that runs the setups of a re-render without the cleanups.
commitCleanupsSkipped(G, fnChanged) == G

\* The commit after a re-render: the cleanups of the effects whose
\* dependencies changed (subscribe always; fn when fnChanged), then their
\* setups.
commitCleanups(G, fnChanged) ==
    IF fnChanged THEN Caught(signalEffectCleanup(unsubscribe(G)))
    ELSE unsubscribe(G)

commitSetups(G, rendered, fnChanged) ==
    IF fnChanged
    THEN signalEffectSetup(updateStoreInstance(subscribe(G), rendered))
    ELSE updateStoreInstance(subscribe(G), rendered)

commitUpdate(G, rendered, fnChanged) ==
    commitSetups(commitCleanups(G, fnChanged), rendered, fnChanged)

\* The signal under the wrapped node.
GapSignal(G) == IF G.hooked \in Signals THEN G.hooked ELSE "a"

\* A commit during which the signal is written after the cleanup of the
\* subscription and before the new subscribe (by the cleanup or the setup
\* of another effect of the same commit).
commitGap(G, rendered, v) ==
    updateStoreInstance(
        subscribe(SignalWrite(unsubscribe(G), GapSignal(G), v)), rendered)

\* An unmount that runs the cleanup of useSyncExternalStore's effect only.
unmountStore(G) == unsubscribe(G)

\* Unmounting: every effect's cleanup, React catching what one throws.
unmount(G) == Caught(signalEffectCleanup(unsubscribe(G)))

\* ------------------------------------------------------------- the program

NoOp ==
    [name |-> "none", s |-> "a", v |-> Undef, n |-> 0, task |-> FALSE,
     unwatched |-> FALSE]

\* Whether the effects of the component's hooks are set up.
Mounted == phase \in {"committed", "rerendered"}

\* The counters stay within MaxCount.
Bounded(G) ==
    /\ \A e \in Effects : G.runs[e] <= MaxCount
    /\ G.nextRef <= MaxCount
    /\ G.notified <= MaxCount
    /\ G.evals <= MaxCount
    /\ G.val["a"].v <= MaxVal + 1

\* hits after a call that took the heap to G.
Hit(G) == IF Mounted /\ G.val["a"] # g.val["a"] THEN hits + 1 ELSE hits

Init ==
    /\ g = InitHeap
    /\ handle = "none"
    /\ scope = "none"
    /\ hits = 0
    /\ phase = "unmounted"
    /\ hookValue = Undef
    /\ tasks = <<>>
    /\ op = NoOp

WriteValues(s) ==
    IF s = "n" THEN {Num(123), Undef, Null, Obj(0, 0)}
    ELSE {Num(i) : i \in 0..MaxVal}

\* signal(v), called by the program.
Write(s, v) ==
    /\ g' = SignalWrite(g, s, v)
    /\ Bounded(g')
    /\ hits' = Hit(g')
    /\ op' = IF s = "a" /\ g.val[s] # v
             THEN [NoOp EXCEPT !.name = "write"] ELSE NoOp
    /\ UNCHANGED <<handle, scope, phase, hookValue, tasks>>

\* computed(), called by the program.
Read(c) ==
    /\ g' = ReadNode(g, c).g
    /\ Bounded(g')
    /\ op' = NoOp
    /\ UNCHANGED <<handle, scope, hits, phase, hookValue, tasks>>

\* createEffect(fn), the program keeping the stop function.
CreateEffect ==
    /\ handle # "live"
    /\ g' = createEffect(g, "eDerive", FALSE)
    /\ Bounded(g')
    /\ handle' = "live"
    /\ op' = NoOp
    /\ UNCHANGED <<scope, hits, phase, hookValue, tasks>>

\* The stop function of the effect, called a first or a further time.
StopEffect ==
    /\ handle # "none"
    /\ g' = stopEffect(g, "eDerive")
    /\ handle' = "stopped"
    /\ op' = NoOp
    /\ UNCHANGED <<scope, hits, phase, hookValue, tasks>>

CreateScope ==
    /\ scope # "live"
    /\ g' = createSignalScope(g)
    /\ Bounded(g')
    /\ scope' = "live"
    /\ op' = NoOp
    /\ UNCHANGED <<handle, hits, phase, hookValue, tasks>>

StopScope ==
    /\ scope # "none"
    /\ g' = stopScope(g)
    /\ scope' = "stopped"
    /\ op' = NoOp
    /\ UNCHANGED <<handle, hits, phase, hookValue, tasks>>

Next ==
    \/ \E s \in {"a", "b"} : \E v \in WriteValues(s) : Write(s, v)
    \/ \E c \in {"double", "prod", "sum"} : Read(c)
    \/ CreateEffect
    \/ StopEffect
    \/ CreateScope
    \/ StopScope

Spec == Init /\ [][Next]_vars

\* ------------------------------------------------------- the component
HookNodes == {"a", "n", "double", "boxed"}
SetterArgs(s) == {Plain(v) : v \in WriteValues(s)}
                     \cup (IF s = "n" THEN {} ELSE {Updater(1)})

\* op after a setter call on signal s with arg: a value written, or one
\* more of a run of successive functional updates.
OpAfter(s, arg, task) ==
    IF ~arg.fn
    THEN [NoOp EXCEPT !.name = "set", !.s = s, !.v = arg.v, !.task = task]
    ELSE IF op.name = "inc" /\ op.s = s
    THEN [op EXCEPT !.n = @ + arg.d, !.task = task]
    ELSE [NoOp EXCEPT !.name = "inc", !.s = s, !.v = g.val[s], !.n = arg.d,
                      !.task = task]

\* renderHook(() => useSignal(signal)), first render.
Mount ==
    /\ phase = "unmounted"
    /\ g' = mountStore(g).g
    /\ Bounded(g')
    /\ hookValue' = mountStore(g).v
    /\ phase' = "mounting"
    /\ op' = NoOp
    /\ UNCHANGED <<handle, scope, hits, tasks>>

\* React re-renders the component (a notification, or any other reason).
Render ==
    /\ phase = "committed"
    /\ g' = renderHook(g).g
    /\ Bounded(g')
    /\ hookValue' = renderHook(g).v
    /\ phase' = "rerendered"
    /\ op' = NoOp
    /\ UNCHANGED <<handle, scope, hits, tasks>>

\* React commits the first render.
CommitMount ==
    /\ phase = "mounting"
    /\ g' = commitMount(g, hookValue)
    /\ Bounded(g')
    /\ phase' = "committed"
    /\ hits' = 0
    /\ op' = NoOp
    /\ UNCHANGED <<handle, scope, hookValue, tasks>>

\* React commits a re-render, fn being the same function or a new one.
CommitUpdate(fnChanged) ==
    /\ phase = "rerendered"
    /\ g' = commitUpdate(g, hookValue, fnChanged)
    /\ Bounded(g')
    /\ phase' = "committed"
    /\ hits' = IF fnChanged THEN 0 ELSE hits
    /\ op' = NoOp
    /\ UNCHANGED <<handle, scope, hookValue, tasks>>

Unmount ==
    /\ phase \in {"committed", "rerendered"}
    /\ g' = unmount(g)
    /\ Bounded(g')
    /\ phase' = "unmounted"
    /\ hookValue' = Undef
    /\ hits' = 0
    /\ op' = NoOp
    /\ UNCHANGED <<handle, scope, tasks>>

\* The setter useSignal returned, called by the program.
UseSetter(arg) ==
    /\ phase # "unmounted"
    /\ g.hooked \in Signals
    /\ g' = setValue(g, g.hooked, arg)
    /\ Bounded(g')
    /\ hits' = Hit(g')
    /\ op' = OpAfter(g.hooked, arg, FALSE)
    /\ UNCHANGED <<handle, scope, phase, hookValue, tasks>>

\* The setter of useSetSignal(a), called by the program.
UseSetSignal(arg) ==
    /\ g' = setSignal(g, "a", arg)
    /\ Bounded(g')
    /\ hits' = Hit(g')
    /\ op' = OpAfter("a", arg, FALSE)
    /\ UNCHANGED <<handle, scope, phase, hookValue, tasks>>

\* Promise.resolve().then(() => setValue(arg))
Schedule(arg) ==
    /\ phase # "unmounted"
    /\ g.hooked \in Signals
    /\ Len(tasks) < MaxTasks
    /\ tasks' = Append(tasks, [s |-> g.hooked, arg |-> arg])
    /\ op' = NoOp
    /\ UNCHANGED <<g, handle, scope, hits, phase, hookValue>>

\* The oldest scheduled task runs.
RunTask ==
    /\ tasks # <<>>
    /\ g' = setValue(g, Head(tasks).s, Head(tasks).arg)
    /\ Bounded(g')
    /\ hits' = Hit(g')
    /\ op' = OpAfter(Head(tasks).s, Head(tasks).arg, TRUE)
    /\ tasks' = Tail(tasks)
    /\ UNCHANGED <<handle, scope, phase, hookValue>>

HookNext ==
    \/ Mount
    \/ Render
    \/ CommitMount
    \/ \E fc \in BOOLEAN : CommitUpdate(fc)
    \/ Unmount
    \/ \E s \in {"a"} \cup ({g.hooked} \cap Signals) :
          \E v \in WriteValues(s) : Write(s, v)
    \/ \E arg \in SetterArgs(g.hooked) : UseSetter(arg)
    \/ \E arg \in SetterArgs("a") : UseSetSignal(arg)

\* The component wraps one node, a signal or a computed, for its whole life.
HookInit ==
    /\ \E n \in HookNodes :
          g = [InitHeap EXCEPT !.hooked = n, !.instNode = n, !.subNode = n]
    /\ handle = "none"
    /\ scope = "none"
    /\ hits = 0
    /\ phase = "unmounted"
    /\ hookValue = Undef
    /\ tasks = <<>>
    /\ op = NoOp

HookSpec == HookInit /\ [][HookNext]_vars

\* The component of the test of concurrent updates: mounted once, its
\* setter called at once or from asynchronous tasks, the signal also
\* written directly.
AsyncNext ==
    \/ Mount
    \/ CommitMount
    \/ \E s \in {g.hooked} \cap Signals : \E v \in WriteValues(s) : Write(s, v)
    \/ \E arg \in SetterArgs(g.hooked) : UseSetter(arg)
    \/ \E arg \in SetterArgs(g.hooked) : Schedule(arg)
    \/ RunTask

AsyncInit ==
    /\ \E n \in {"a", "n"} :
          g = [InitHeap EXCEPT !.hooked = n, !.instNode = n, !.subNode = n]
    /\ handle = "none"
    /\ scope = "none"
    /\ hits = 0
    /\ phase = "unmounted"
    /\ hookValue = Undef
    /\ tasks = <<>>
    /\ op = NoOp

AsyncSpec == AsyncInit /\ [][AsyncNext]_vars

\* ---------------------------------------- the component using useComputed
\* renderHook(() => useComputed(getter)), first render.
MountComputed ==
    /\ phase = "unmounted"
    /\ g' = mountComputed(g).g
    /\ Bounded(g')
    /\ hookValue' = mountComputed(g).v
    /\ phase' = "mounting"
    /\ op' = NoOp
    /\ UNCHANGED <<handle, scope, hits, tasks>>

\* A re-render, getter being the same function or a new one.
RenderComputed(getterChanged) ==
    /\ phase = "committed"
    /\ g' = useComputed(g, getterChanged).g
    /\ Bounded(g')
    /\ hookValue' = useComputed(g, getterChanged).v
    /\ phase' = "rerendered"
    /\ op' = NoOp
    /\ UNCHANGED <<handle, scope, hits, tasks>>

\* React commits the render: useSyncExternalStore's effects, the only
\* ones of this component.
CommitComputed ==
    /\ phase \in {"mounting", "rerendered"}
    /\ g' = updateStoreInstance(subscribe(unsubscribe(g)), hookValue)
    /\ Bounded(g')
    /\ phase' = "committed"
    /\ op' = NoOp
    /\ UNCHANGED <<handle, scope, hits, hookValue, tasks>>

UnmountComputed ==
    /\ phase \in {"committed", "rerendered"}
    /\ g' = unmountComputed(g)
    /\ phase' = "unmounted"
    /\ hookValue' = Undef
    /\ op' = NoOp
    /\ UNCHANGED <<handle, scope, hits, tasks>>

\* signal(v), called by the program.
WriteComputed(s, v) ==
    /\ g' = SignalWrite(g, s, v)
    /\ Bounded(g')
    /\ op' = NoOp
    /\ UNCHANGED <<handle, scope, hits, phase, hookValue, tasks>>

MemoNext ==
    \/ MountComputed
    \/ \E gc \in BOOLEAN : RenderComputed(gc)
    \/ CommitComputed
    \/ UnmountComputed
    \/ \E s \in {"a", "b"} : \E v \in WriteValues(s) : WriteComputed(s, v)

MemoInit ==
    /\ g = [InitHeap EXCEPT !.hooked = "memo1",
                            !.instNode = "memo1",
                            !.subNode = "memo1"]
    /\ handle = "none"
    /\ scope = "none"
    /\ hits = 0
    /\ phase = "unmounted"
    /\ hookValue = Undef
    /\ tasks = <<>>
    /\ op = NoOp

MemoSpec == MemoInit /\ [][MemoNext]_vars

\* --------------------------------------- the component using useSignalScope
FreeScopes == {e \in UseEffects : ~g.alive[e]}

\* renderHook(() => useSignalScope(callback)), first render.
ScopeMount(strict) ==
    /\ phase = "unmounted"
    /\ Cardinality(FreeScopes) >= (IF strict THEN 2 ELSE 1)
    /\ g' = useSignalScope(g, TRUE, strict)
    /\ Bounded(g')
    /\ phase' = "mounting"
    /\ op' = NoOp
    /\ UNCHANGED <<handle, scope, hits, hookValue, tasks>>

\* A re-render, callback being the same function or a new one.
ScopeRender(callbackChanged, strict) ==
    /\ phase = "committed"
    /\ Cardinality(FreeScopes) >= (IF strict THEN 2 ELSE 1)
    /\ g' = useSignalScope(g, callbackChanged, strict)
    /\ Bounded(g')
    /\ phase' = "rerendered"
    /\ op' = NoOp
    /\ UNCHANGED <<handle, scope, hits, hookValue, tasks>>

\* React commits the render.
ScopeCommit ==
    /\ phase \in {"mounting", "rerendered"}
    /\ g' = commitScope(g)
    /\ phase' = "committed"
    /\ op' = NoOp
    /\ UNCHANGED <<handle, scope, hits, hookValue, tasks>>

\* unmount(), also while a re-render is in progress and not committed.
ScopeUnmount ==
    /\ phase \in {"committed", "rerendered"}
    /\ g' = unmountScope(g)
    /\ phase' = "unmounted"
    /\ op' = NoOp
    /\ UNCHANGED <<handle, scope, hits, hookValue, tasks>>

\* signal(v), called by the program.
ScopeWrite(v) ==
    /\ g' = SignalWrite(g, "a", v)
    /\ Bounded(g')
    /\ op' = IF g.val["a"] # v THEN [NoOp EXCEPT !.name = "write"] ELSE NoOp
    /\ UNCHANGED <<handle, scope, hits, phase, hookValue, tasks>>

ScopeNext ==
    \/ \E st \in BOOLEAN : ScopeMount(st)
    \/ \E cc \in BOOLEAN : \E st \in BOOLEAN : ScopeRender(cc, st)
    \/ ScopeCommit
    \/ ScopeUnmount
    \/ \E v \in WriteValues("a") : ScopeWrite(v)

ScopeSpec == Init /\ [][ScopeNext]_vars

\* ------------------------------------ the program with a diamond of computeds
\* createEffect(fn), fn reading d, or reading b and c.
CreateDiamondEffect(e) ==
    /\ ~g.alive[e]
    /\ g' = createEffect(g, e, FALSE)
    /\ Bounded(g')
    /\ op' = NoOp
    /\ UNCHANGED <<handle, scope, hits, phase, hookValue, tasks>>

DiamondNext ==
    \/ \E v \in 0..(MaxVal + 1) : Write("a", Num(v))
    \/ \E c \in {"dB", "dC", "dD"} : Read(c)
    \/ \E e \in {"eD", "eMix"} : CreateDiamondEffect(e)

DiamondSpec == Init /\ [][DiamondNext]_vars

\* ------------------------- the program with an effect writing what it reads
CreateSelfEffect ==
    /\ ~g.alive["eSelf"]
    /\ g' = createEffect(g, "eSelf", FALSE)
    /\ Bounded(g')
    /\ op' = NoOp
    /\ UNCHANGED <<handle, scope, hits, phase, hookValue, tasks>>

StopSelfEffect ==
    /\ g.alive["eSelf"]
    /\ g' = stopEffect(g, "eSelf")
    /\ op' = NoOp
    /\ UNCHANGED <<handle, scope, hits, phase, hookValue, tasks>>

SelfNext ==
    \/ \E v \in WriteValues("a") : Write("a", v)
    \/ \E c \in {"double", "sum"} : Read(c)
    \/ CreateSelfEffect
    \/ StopSelfEffect
    \/ CreateEffect
    \/ StopEffect

SelfInit ==
    /\ \E cf \in BOOLEAN : g = [InitHeap EXCEPT !.checkFirst = cf]
    /\ handle = "none"
    /\ scope = "none"
    /\ hits = 0
    /\ phase = "unmounted"
    /\ hookValue = Undef
    /\ tasks = <<>>
    /\ op = NoOp

SelfSpec == SelfInit /\ [][SelfNext]_vars

\* --------------------------------- the program with an effect that throws
\* op after a call that took the heap to G.
OpThrown(G, changed) ==
    [NoOp EXCEPT !.name = IF G.thrown THEN "threw"
                          ELSE IF changed THEN "write" ELSE "none"]

\* signal(v), called by the program inside try/catch.
ThrowWrite(v) ==
    /\ g' = Caught(SignalWrite(g, "a", v))
    /\ Bounded(g')
    /\ op' = OpThrown(SignalWrite(g, "a", v), g.val["a"] # v)
    /\ UNCHANGED <<handle, scope, hits, phase, hookValue, tasks>>

\* createEffect(fn), fn throwing for one value of the signal.
CreateThrowEffect ==
    /\ ~g.alive["eThrow"]
    /\ g' = Caught(createEffect(g, "eThrow", FALSE))
    /\ Bounded(g')
    /\ op' = NoOp
    /\ UNCHANGED <<handle, scope, hits, phase, hookValue, tasks>>

StopThrowEffect ==
    /\ g.alive["eThrow"]
    /\ g' = stopEffect(g, "eThrow")
    /\ op' = NoOp
    /\ UNCHANGED <<handle, scope, hits, phase, hookValue, tasks>>

ThrowNext ==
    \/ \E v \in 0..(MaxVal + 1) : ThrowWrite(Num(v))
    \/ CreateThrowEffect
    \/ StopThrowEffect
    \/ CreateEffect
    \/ StopEffect

ThrowSpec == Init /\ [][ThrowNext]_vars

\* ------------------- the component whose useSignalEffect cleanup throws
CleanupNext ==
    \/ Mount
    \/ Render
    \/ CommitMount
    \/ CommitUpdate(FALSE)
    \/ Unmount
    \/ \E v \in 0..(MaxVal + 1) : ThrowWrite(Num(v))

CleanupInit ==
    /\ g = [InitHeap EXCEPT !.cleanupThrows = TRUE]
    /\ handle = "none"
    /\ scope = "none"
    /\ hits = 0
    /\ phase = "unmounted"
    /\ hookValue = Undef
    /\ tasks = <<>>
    /\ op = NoOp

CleanupSpec == CleanupInit /\ [][CleanupNext]_vars

\* ------------------------------ the program with a computed reading itself
\* op after a read of computed c that took the heap to r.g and returned
\* r.v.
OpRead(c, r) ==
    [NoOp EXCEPT !.name = IF r.g.thrown THEN "threw" ELSE "read",
                 !.s = c,
                 !.v = r.v]

\* cyc(), cyc = createComputed(() => a() + cyc()), inside try/catch.
ReadCyclic ==
    /\ g' = Caught(ReadNode(g, "cyc").g)
    /\ Bounded(g')
    /\ op' = OpRead("cyc", ReadNode(g, "cyc"))
    /\ UNCHANGED <<handle, scope, hits, phase, hookValue, tasks>>

CycleNext ==
    \/ ReadCyclic
    \/ \E s \in {"a", "b"} : \E v \in WriteValues(s) : Write(s, v)
    \/ \E c \in {"double", "sum"} : Read(c)
    \/ CreateEffect
    \/ StopEffect

CycleSpec == Init /\ [][CycleNext]_vars

\* ------------------------------------------------------------- batching
\* Programs that write inside startBatch() / endBatch() of alien-signals,
\* next to the effects of a scope.  (op: the value of a when the outermost
\* batch opened, and whether no, one or more changing writes to a followed.)
BatchInit ==
    /\ \E lz \in BOOLEAN : g = [InitHeap EXCEPT !.lazy = lz]
    /\ handle = "none"
    /\ scope = "none"
    /\ hits = 0
    /\ phase = "unmounted"
    /\ hookValue = Undef
    /\ tasks = <<>>
    /\ op = NoOp

StartBatch ==
    /\ g.batchDepth < MaxDepth
    /\ g' = startBatch(g)
    /\ op' = IF g.batchDepth = 0
             THEN [NoOp EXCEPT !.name = "batch", !.v = g.val["a"]]
             ELSE op
    /\ UNCHANGED <<handle, scope, hits, phase, hookValue, tasks>>

EndBatch ==
    /\ g.batchDepth > 0
    /\ g' = endBatch(g)
    /\ Bounded(g')
    /\ op' = IF g.batchDepth = 1 THEN [op EXCEPT !.name = "closed"] ELSE op
    /\ UNCHANGED <<handle, scope, hits, phase, hookValue, tasks>>

BatchWrite(s, v) ==
    /\ g' = SignalWrite(g, s, v)
    /\ Bounded(g')
    /\ op' = IF g.batchDepth = 0 THEN NoOp
             ELSE IF s = "a" /\ g.val[s] # v /\ op.n < 2
             THEN [op EXCEPT !.n = @ + 1]
             ELSE op
    /\ UNCHANGED <<handle, scope, hits, phase, hookValue, tasks>>

BatchRead(c) ==
    /\ g' = ReadNode(g, c).g
    /\ UNCHANGED <<handle, scope, hits, phase, hookValue, tasks, op>>

BatchCreateScope ==
    /\ g.batchDepth = 0
    /\ CreateScope

BatchStopScope ==
    /\ g.batchDepth = 0
    /\ StopScope

BatchNext ==
    \/ StartBatch
    \/ EndBatch
    \/ \E s \in {"a", "b"} : \E v \in WriteValues(s) : BatchWrite(s, v)
    \/ BatchRead("sum")
    \/ BatchCreateScope
    \/ BatchStopScope

BatchSpec == BatchInit /\ [][BatchNext]_vars

\* ------------------------------------------------------- async computed
\* createAsyncComputed(function* () { yield a; return a() * 2 }).  async:
\* the published value (undefined: not yet resolved), the request that
\* produced it, and the number of the latest request.  tasks holds the
\* recomputations in flight, each with its request number and the result
\* it will produce from the value it read.

\* A recomputation is requested: a new epoch, and a unit of work in flight.
Requested(G) == [G EXCEPT !.async.epoch = @ + 1]

InFlight(G) == [gen |-> G.async.epoch, v |-> Num(G.val["a"].v * 2)]

\* A completion that publishes whatever the request it belongs to.
CompletedUnchecked(G, t) == [G EXCEPT !.async.value = t.v, !.async.gen = t.gen]

\* A recomputation completes: its result is published when no later
\* request was made meanwhile, and discarded otherwise.
Completed(G, t) ==
    IF t.gen = G.async.epoch
    THEN [G EXCEPT !.async.value = t.v, !.async.gen = t.gen]
    ELSE G

Without(q, i) == SubSeq(q, 1, i - 1) \o SubSeq(q, i + 1, Len(q))

\* asyncComputed.update(), called by the program.
ForceUpdate ==
    /\ Len(tasks) < MaxTasks
    /\ g.async.epoch < MaxCount
    /\ g' = Requested(g)
    /\ tasks' = Append(tasks, InFlight(g'))
    /\ op' = NoOp
    /\ UNCHANGED <<handle, scope, hits, phase, hookValue>>

\* Whether a write of v to a makes the async computed recompute: the
\* value changes, and the computed has declared a as a dependency.
Invalidates(G, v) == G.val["a"] # v /\ G.async.epoch > 0

\* signal(v): a changing write to the declared dependency of a computed
\* that has run requests a recomputation.
AsyncWrite(v) ==
    /\ Invalidates(g, v)
    /\ Len(tasks) < MaxTasks
    /\ g.async.epoch < MaxCount
    /\ g' = Requested(SignalWrite(g, "a", v))
    /\ tasks' = Append(tasks, InFlight(g'))
    /\ op' = NoOp
    /\ UNCHANGED <<handle, scope, hits, phase, hookValue>>

\* signal(v), when the async computed has nothing to recompute.
AsyncPlainWrite(v) ==
    /\ ~Invalidates(g, v)
    /\ g' = SignalWrite(g, "a", v)
    /\ op' = NoOp
    /\ UNCHANGED <<handle, scope, hits, phase, hookValue, tasks>>

\* asyncComputed.get(): the last resolved value, or undefined before any
\* recomputation has completed.
AsyncRead ==
    /\ op' = [NoOp EXCEPT !.name = "read", !.v = g.async.value,
                          !.n = g.async.gen]
    /\ UNCHANGED <<g, handle, scope, hits, phase, hookValue, tasks>>

\* The recomputation at position i of those in flight completes.
Resolve(i) ==
    /\ g' = Completed(g, tasks[i])
    /\ tasks' = Without(tasks, i)
    /\ op' = [NoOp EXCEPT !.name = "resolve", !.n = tasks[i].gen,
                          !.v = tasks[i].v]
    /\ UNCHANGED <<handle, scope, hits, phase, hookValue>>

AsyncComputedNext ==
    \/ ForceUpdate
    \/ \E v \in WriteValues("a") : AsyncWrite(v)
    \/ \E v \in WriteValues("a") : AsyncPlainWrite(v)
    \/ AsyncRead
    \/ \E i \in 1..Len(tasks) : Resolve(i)

AsyncComputedSpec == Init /\ [][AsyncComputedNext]_vars

\* --------------------------------------------------------- computed array
\* createComputedArray(input, (item, i) => () => item() * 2).  arr: the
\* input sequence, one slot per index (whether it is stale, the value it
\* holds, and the element its projection last ran on), and the indices
\* whose projection ran in the last call.
Project(x) == Num(x.v * 2)

NewSlot == [stale |-> TRUE, val |-> Undef, src |-> Undef]

\* A positional diff that marks every slot stale when the input changes.
DiffedAll(A, new) ==
    [i \in 1..Len(new) |->
        IF i <= Len(A.slots) THEN [A.slots[i] EXCEPT !.stale = TRUE]
        ELSE NewSlot]

\* The positional diff of the old and the new input: a slot whose element
\* is the same is left as it is, one whose element differs is stale, the
\* slots beyond the new length are disposed, and new indices get new slots.
Diffed(A, new) ==
    [i \in 1..Len(new) |->
        IF i > Len(A.slots) THEN NewSlot
        ELSE IF A.input[i] = new[i] THEN A.slots[i]
        ELSE [A.slots[i] EXCEPT !.stale = TRUE]]

\* The input signal is written.
arraySet(A, new) == [input |-> new, slots |-> Diffed(A, new), ran |-> {}]

\* The slot at index i is read: its projection runs when it is stale.
slotRead(A, i) ==
    IF A.slots[i].stale
    THEN [A EXCEPT !.slots[i] = [stale |-> FALSE,
                                 val |-> Project(A.input[i]),
                                 src |-> A.input[i]],
                   !.ran = {i}]
    ELSE [A EXCEPT !.ran = {}]

Inputs ==
    UNION {[1..n -> {Num(x) : x \in 0..MaxVal}] : n \in 0..MaxLen}

ArraySet(new) ==
    /\ g' = [g EXCEPT !.arr = arraySet(@, new)]
    /\ op' = [NoOp EXCEPT !.name = "set", !.n = Len(g.arr.input)]
    /\ UNCHANGED <<handle, scope, hits, phase, hookValue, tasks>>

ArrayRead(i) ==
    /\ g' = [g EXCEPT !.arr = slotRead(@, i)]
    /\ op' = [NoOp EXCEPT !.name = "index", !.n = i,
                          !.v = g'.arr.slots[i].val]
    /\ UNCHANGED <<handle, scope, hits, phase, hookValue, tasks>>

ArrayNext ==
    \/ \E new \in Inputs : ArraySet(new)
    \/ \E i \in 1..Len(g.arr.input) : ArrayRead(i)

ArraySpec == Init /\ [][ArrayNext]_vars

\* ------------------------------------------- programs over single nodes
\* The calls of a program, with op recording the call: the node, the value
\* written or read, whether a write changed the signal, and whether an
\* effect was stopped since the last write.
WriteTo(s, v) ==
    /\ g' = SignalWrite(g, s, v)
    /\ Bounded(g')
    /\ op' = [NoOp EXCEPT !.name = "write", !.s = s, !.v = v,
                          !.n = IF g.val[s] = v THEN 0 ELSE 1]
    /\ UNCHANGED <<handle, scope, hits, phase, hookValue, tasks>>

ReadOf(c) ==
    /\ g' = ReadNode(g, c).g
    /\ Bounded(g')
    /\ op' = [NoOp EXCEPT !.name = "read", !.s = c, !.v = ReadNode(g, c).v,
                          !.unwatched = op.unwatched]
    /\ UNCHANGED <<handle, scope, hits, phase, hookValue, tasks>>

CreateNodeEffect(e) ==
    /\ ~g.alive[e]
    /\ g' = createEffect(g, e, FALSE)
    /\ Bounded(g')
    /\ op' = [NoOp EXCEPT !.name = "create", !.s = e,
                          !.unwatched = op.unwatched]
    /\ UNCHANGED <<handle, scope, hits, phase, hookValue, tasks>>

StopNodeEffect(e) ==
    /\ g.alive[e]
    /\ g' = stopEffect(g, e)
    /\ op' = [NoOp EXCEPT !.name = "stop", !.s = e, !.unwatched = TRUE]
    /\ UNCHANGED <<handle, scope, hits, phase, hookValue, tasks>>

\* createEqualityComputed(() => ({ v: a() * b() })), read by the program
\* and by an effect.
EqNext ==
    \/ \E s \in {"a", "b"} : \E v \in WriteValues(s) : WriteTo(s, v)
    \/ ReadOf("eq")
    \/ CreateNodeEffect("eEq")
    \/ StopNodeEffect("eEq")

EqSpec == Init /\ [][EqNext]_vars

\* createComputed(() => a() || b()) and createEffect(() => a() || b()):
\* b is read in the runs that find a at 0 only.
CondNext ==
    \/ \E s \in {"a", "b"} : \E v \in WriteValues(s) : WriteTo(s, v)
    \/ ReadOf("cond")
    \/ CreateNodeEffect("eCond")
    \/ StopNodeEffect("eCond")

CondSpec == Init /\ [][CondNext]_vars

\* createComputed(() => a() || b()), read by the program and by an effect
\* that the program creates and stops.
WatchNext ==
    \/ \E s \in {"a", "b"} : \E v \in WriteValues(s) : WriteTo(s, v)
    \/ ReadOf("cond")
    \/ CreateNodeEffect("eWatch")
    \/ StopNodeEffect("eWatch")

WatchSpec == Init /\ [][WatchNext]_vars

\* ------------- the component whose fn throws or whose cleanup writes
FxInit ==
    /\ \E t \in BOOLEAN : \E w \in BOOLEAN :
          g = [InitHeap EXCEPT !.fx.throws = t, !.fx.writes = w]
    /\ handle = "none"
    /\ scope = "none"
    /\ hits = 0
    /\ phase = "unmounted"
    /\ hookValue = Undef
    /\ tasks = <<>>
    /\ op = NoOp

\* renderHook(() => useSignalEffect(fn)), rendered and committed.
FxMount ==
    /\ phase = "unmounted"
    /\ g' = Caught(fxSetup(g))
    /\ Bounded(g')
    /\ phase' = "committed"
    /\ op' = NoOp
    /\ UNCHANGED <<handle, scope, hits, hookValue, tasks>>

FxUnmount ==
    /\ phase = "committed"
    /\ g' = Caught(fxCleanup(g))
    /\ Bounded(g')
    /\ phase' = "unmounted"
    /\ op' = NoOp
    /\ UNCHANGED <<handle, scope, hits, hookValue, tasks>>

FxNext ==
    \/ FxMount
    \/ FxUnmount
    \/ \E v \in 0..(MaxVal + 1) : ThrowWrite(Num(v))

FxSpec == FxInit /\ [][FxNext]_vars

\* ------------- the component using useSignalScope, effects reconnected
\* React runs the cleanup and the setup of the committed effect again.
ScopeReconnect ==
    /\ phase = "committed"
    /\ g' = scopeReconnect(g)
    /\ phase' = "committed"
    /\ op' = [NoOp EXCEPT !.name = "reconnect"]
    /\ UNCHANGED <<handle, scope, hits, hookValue, tasks>>

ReconnectNext ==
    \/ ScopeNext
    \/ ScopeReconnect

ReconnectSpec == Init /\ [][ReconnectNext]_vars

\* ------------------------------------ stop functions called repeatedly
\* op.n is 2 when the call is not the first one of that stop function.

\* The stop function of createEffect.
EffectStop ==
    /\ handle # "none"
    /\ g' = stopEffect(g, "eDerive")
    /\ handle' = "stopped"
    /\ op' = [NoOp EXCEPT !.name = "stopEffect",
                          !.n = IF handle = "stopped" THEN 2 ELSE 1]
    /\ UNCHANGED <<scope, hits, phase, hookValue, tasks>>

\* The stop function of createSignalScope.
ScopeStop ==
    /\ scope # "none"
    /\ g' = stopScope(g)
    /\ scope' = "stopped"
    /\ op' = [NoOp EXCEPT !.name = "stopScope",
                          !.n = IF scope = "stopped" THEN 2 ELSE 1]
    /\ UNCHANGED <<handle, hits, phase, hookValue, tasks>>

\* The stop function useSignalScope returned, called by the component.
HookStop ==
    /\ phase = "committed"
    /\ g' = stopScopeReturned(g)
    /\ op' = [NoOp EXCEPT !.name = "stopHook",
                          !.n = IF g.alive[g.memoScope] THEN 1 ELSE 2]
    /\ UNCHANGED <<handle, scope, hits, phase, hookValue, tasks>>

\* unmount(): the automatic call of stopScope.
HookUnmount ==
    /\ phase = "committed"
    /\ g' = unmountScope(g)
    /\ phase' = "unmounted"
    /\ op' = [NoOp EXCEPT !.name = "unmount",
                          !.n = IF g.alive[g.memoScope] THEN 1 ELSE 2]
    /\ UNCHANGED <<handle, scope, hits, hookValue, tasks>>

StopNext ==
    \/ CreateEffect
    \/ EffectStop
    \/ CreateScope
    \/ ScopeStop
    \/ ScopeMount(FALSE)
    \/ ScopeCommit
    \/ HookStop
    \/ HookUnmount
    \/ \E v \in WriteValues("a") : ScopeWrite(v)

StopSpec == Init /\ [][StopNext]_vars

\* ------------------- the component, with React's scheduling guarantees
\* React runs the re-render a store change asked for.
Rerender ==
    /\ g.needsRender
    /\ Render

\* A commit with a write between unsubscribe and subscribe.
GapCommit(v) ==
    /\ phase = "rerendered"
    /\ g' = commitGap(g, hookValue, v)
    /\ Bounded(g')
    /\ phase' = "committed"
    /\ hits' = Hit(g')
    /\ op' = NoOp
    /\ UNCHANGED <<handle, scope, hookValue, tasks>>

GapNext ==
    \/ Mount
    \/ Rerender
    \/ Render
    \/ CommitMount
    \/ CommitUpdate(FALSE)
    \/ \E v \in WriteValues(GapSignal(g)) : GapCommit(v)
    \/ Unmount
    \/ \E v \in WriteValues(GapSignal(g)) : Write(GapSignal(g), v)

\* The wrapped node is a signal or a computed of primitive values.
GapInit ==
    /\ \E n \in {"a", "n", "double"} :
          g = [InitHeap EXCEPT !.hooked = n, !.instNode = n, !.subNode = n]
    /\ handle = "none"
    /\ scope = "none"
    /\ hits = 0
    /\ phase = "unmounted"
    /\ hookValue = Undef
    /\ tasks = <<>>
    /\ op = NoOp

\* A render is followed by its commit.
Commits == phase \in {"mounting", "rerendered"} /\ phase' = "committed"

\* React commits every render it completes and runs every re-render it
\* scheduled.  (The fairness on commits is stated on the phase alone; the
\* steps of GapNext that satisfy Commits are the commit actions.)
GapSpec ==
    /\ GapInit
    /\ [][GapNext]_vars
    /\ WF_vars(Rerender)
    /\ WF_phase(Commits)

\* ------------------------------------------------------------ properties
\* What each computed is defined to be, from the signals' current values.
Expected(c) ==
    CASE c = "double" -> Num(g.val["a"].v * 2)
      [] c = "prod" -> Num(g.val["a"].v * g.val["b"].v)
      [] c = "sum" -> Num(g.val["a"].v * 2 + g.val["a"].v * g.val["b"].v)

\* C1: after any sequence of writes, reading a computed returns its function
\* applied to the signals' current values: over one signal (double), over
\* several signals (prod), and over other computeds (sum).
C1_ComputedCurrent ==
    \A c \in {"double", "prod", "sum"} : ReadNode(g, c).v = Expected(c)

\* A computed over computeds whose cached value is out of date after writes
\* to both signals, so that the next read has to bring it up to date.
C1_Witness ==
    /\ g.cval["sum"] \notin {Undef, Expected("sum")}
    /\ g.val["a"] # Num(0)
    /\ g.val["b"] # Num(0)
    /\ ReadNode(g, "sum").v = Expected("sum")

\* C2: a signal read returns the argument of the last write that executed
\* (the initial value if none), whether the write was direct, a setter
\* call, or a setter call run later from an asynchronous task.
C2_ReadIsLastWrite ==
    \A s \in Signals : ReadNode(g, s).v = g.last[s]

\* A task has just written a value over a different one written before,
\* while another scheduled task is still waiting.
C2_Witness ==
    /\ op.task
    /\ op.name = "set"
    /\ tasks # <<>>
    /\ g.val[op.s] = op.v
    /\ op.v \in {Null, Num(1)}

\* C3: createEffect runs fn exactly once before it returns, and a changing
\* write to the signal fn read has re-run fn by the time the write returns,
\* so that the signal the effect derives already holds the derived value.
C3_EffectSynchronous ==
    [][ /\ (handle # "live" /\ handle' = "live")
            => /\ g'.runs["eDerive"] = 1
               /\ g'.val["b"] = Num(g'.val["a"].v * 2)
        /\ (handle = "live" /\ handle' = "live" /\ g'.val["a"] # g.val["a"])
            => /\ g'.runs["eDerive"] = g.runs["eDerive"] + 1
               /\ g'.val["b"] = Num(g'.val["a"].v * 2) ]_vars

\* The effect is live, a changing write to its source has just returned,
\* and the derived signal holds the doubled value.
C3_Witness ==
    /\ handle = "live"
    /\ op.name = "write"
    /\ g.runs["eDerive"] >= 2
    /\ g.val["a"] = Num(1)
    /\ g.val["b"] = Num(2)

ScopeEffects == {"eSc1", "eSc2"}

\* C4: once the scope's stop function was called, every effect created in
\* the scope's callback is stopped: it is linked to no node and none of the
\* later writes runs it (runs counts the runs of a live effect only).
C4_ScopeStopStopsAll ==
    scope = "stopped" =>
        \A e \in ScopeEffects :
            /\ ~g.alive[e]
            /\ g.runs[e] = 0
            /\ \A n \in Nodes : e \notin EffSubs(g, n)
            /\ e \notin Range(g.queue)

\* The scope is stopped and a changing write to the signal its effects
\* tracked has just returned.
C4_Witness ==
    /\ scope = "stopped"
    /\ op.name = "write"
    /\ g.val["a"] = Num(1)

\* C5: once the stop function of createEffect was called, the effect is
\* unsubscribed from every dependency, and no later write runs it: the
\* signal it derived is left alone.
C5_StopUnsubscribes ==
    /\ [](handle = "stopped" =>
            /\ ~g.alive["eDerive"]
            /\ g.runs["eDerive"] = 0
            /\ \A n \in Nodes : "eDerive" \notin EffSubs(g, n))
    /\ [][ handle = "stopped" /\ handle' = "stopped" /\ g'.val["a"] # g.val["a"]
             => g'.val["b"] = g.val["b"] ]_vars

\* The effect is stopped, a changing write to its source has just
\* returned, and the derived signal no longer follows.
C5_Witness ==
    /\ handle = "stopped"
    /\ op.name = "write"
    /\ g.val["b"] # Num(g.val["a"].v * 2)

\* C6: no coalescing: the active effect of useSignalEffect, which tracks a
\* signal, has run exactly k + 1 times after k changing writes to it, also
\* when the writes follow one another with no render in between.
C6_NoCoalescing ==
    Mounted => g.runs["eHook"] = hits + 1

\* The effect of useSignalEffect after two changing writes in a row.
C6_Witness ==
    /\ phase = "committed"
    /\ g.alive["eHook"]
    /\ hits = 2
    /\ g.runs["eHook"] = 3

\* C7: once React has processed the notifications (no re-render is
\* pending), the value the mounted component got from the hook is the
\* signal's current value, undefined, null and objects included.
C7_HookValueCurrent ==
    (phase = "committed" /\ ~g.needsRender /\ g.hooked \in Signals)
        => hookValue = g.val[g.hooked]

\* The component shows the value of a changing write made after it
\* mounted, and no re-render is pending.
C7_Witness ==
    /\ phase = "committed"
    /\ ~g.needsRender
    /\ g.hooked = "a"
    /\ hits >= 1
    /\ hookValue = Num(1)
    /\ g.last["a"] = Num(1)

\* C8: two getSnapshot calls on the same wrapped node with no write to any
\* of its dependencies between them return the same value.
C8_SnapshotStable == ~g.torn

\* C9: the subscribe effect does not call notify on its subscription-time
\* run, calls it once on each later run, and never once unsubscribed.
C9_NotifySkipsFirstRun ==
    IF g.alive["eBridge"] THEN g.notified = g.runs["eBridge"] - 1
    ELSE g.runs["eBridge"] = 0

\* C10: a setter called with a value v writes v; called with a function it
\* writes the function of the signal's current value, so that n functional
\* increments in a row raise the signal by n.
C10_SetterSemantics ==
    /\ op.name = "set" => g.val[op.s] = op.v
    /\ op.name = "inc" => g.val[op.s] = Num(op.v.v + op.n)

\* Two functional increments in a row, no render in between: the component
\* still shows the value from before the first.
C10_Witness ==
    /\ op.name = "inc"
    /\ op.n = 2
    /\ phase = "committed"
    /\ g.hooked = "a"
    /\ hookValue = op.v
    /\ g.val["a"] = Num(op.v.v + 2)

\* C11: once React has processed the notifications, the value useComputed
\* returned is the getter over the current values of the signals and
\* computeds it reads (here double() + a() * b()), whether the getter kept
\* its identity between renders or not.
C11_UseComputedCurrent ==
    (phase = "committed" /\ ~g.needsRender) =>
        hookValue = Num(2 * g.val["a"].v + g.val["a"].v * g.val["b"].v)

\* The component shows the getter's value for the signals as written, in
\* a render with a new getter, the computed of the render before holding
\* the value from before a write.
C11_Witness ==
    /\ phase = "committed"
    /\ ~g.needsRender
    /\ g.runs["eBridge"] = 1
    /\ g.val["a"] = Num(1)
    /\ g.val["b"] = Num(1)
    /\ hookValue = Num(3)
    /\ g.cval[OtherMemo(g.hooked)] \notin {Undef, Num(3)}

\* C12: the cleanup fn returned is called once before each later run of fn,
\* so while the component is mounted it was called once less often than fn
\* ran and the last run's cleanup is pending; unmounting calls the pending
\* cleanup once more and leaves none pending.
C12_CleanupBeforeRerunAndUnmount ==
    /\ [](Mounted => (g.cleanup /\ g.cleans = g.runs["eHook"] - 1))
    /\ [][(Mounted /\ phase' = "unmounted")
            => (g'.cleans = g.cleans + 1 /\ ~g'.cleanup)]_vars

\* One changing write while mounted, then the unmount: two cleanup calls.
C12_Witness == phase = "unmounted" /\ g.cleans = 2

\* C13: while the component is unmounted neither hook effect is alive,
\* linked to a node, queued, or has run since the unmount, whatever is
\* written; and the commit of each mount runs fn exactly once.
C13_UnmountReleasesAll ==
    /\ [](phase = "unmounted" =>
            \A e \in {"eHook", "eBridge"} :
                /\ ~g.alive[e]
                /\ g.edeps[e] = {}
                /\ g.runs[e] = 0
                /\ e \notin Range(g.queue))
    /\ [][(phase = "mounting" /\ phase' = "committed")
            => g'.runs["eHook"] = 1]_vars

\* A changing write to the signal the hooks read, made after an unmount.
C13_Witness ==
    /\ phase = "unmounted"
    /\ op.name = "write"
    /\ g.cleans >= 1
    /\ g.hooked \in {"a", "double"}

\* C14: once the component is unmounted, the effect of every scope that
\* useSignalScope created is stopped.
C14_ScopesStoppedAtUnmount ==
    phase = "unmounted" => \A e \in UseEffects : ~g.alive[e]

\* C15: in the diamond b = f(a), c = g(a), d = h(b, c), after a write to a
\* the function of d runs at most once, however often d is read and
\* whether or not an effect reading d is re-run by the write.
C15_DiamondOnce == g.evals <= 1

\* The write re-ran the effect that reads d, and d was computed once.
C15_Witness ==
    /\ g.evals = 1
    /\ g.runs["eD"] >= 2
    /\ g.cflag["dD"] = "clean"
    /\ g.cval["dD"] = Num(3 * g.val["a"].v + 1)

\* C16: no computed function and no effect function ever sees a value of b
\* and a value of c that come from two different values of a.
C16_GlitchFree == ~g.glitch

\* The computed d and the effect reading b and c both ran after a changing
\* write to a.
C16_Witness ==
    /\ g.runs["eMix"] >= 2
    /\ g.runs["eD"] >= 2
    /\ g.evals = 1
    /\ ~g.glitch

\* C17: a write made by an effect's function to the signal that function
\* read ends, and does not make the effect run again and again: a program
\* write re-runs the effect once, and creating the effect runs it once, or
\* twice when the installed engine does not guard the first run.
C17_SelfWriteBounded ==
    [][g'.runs["eSelf"] <=
         (IF g.alive["eSelf"] THEN g.runs["eSelf"] + 1
          ELSE IF g.checkFirst THEN 1 ELSE 2)]_vars

\* A changing write by the program re-ran the effect, which wrote the
\* signal again.
C17_Witness ==
    /\ g.alive["eSelf"]
    /\ op.name = "write"
    /\ g.runs["eSelf"] >= 2
    /\ g.val["a"] = Num(2)
    /\ g.running = {}
    /\ g.queue = <<>>

\* C18: when an effect function throws in the re-run a write triggered, the
\* signal holds the written value and every other live effect subscribed
\* to it has run for that write (the other effect keeps b at a * 2).
C18_OthersRunDespiteThrow ==
    op.name = "threw" =>
        /\ g.val["a"] = g.last["a"]
        /\ handle = "live" => g.val["b"] = Num(g.val["a"].v * 2)

\* C19: after the unmount of a component using useSignalEffect the effect is
\* stopped, also when the cleanup fn returned throws.
C19_DisposalCompletes == phase = "unmounted" => ~g.alive["eHook"]

\* C20: a read of a computed whose function reads itself raises an error
\* (CyclicDependencyError) instead of returning a value.
C20_CycleRaises == op.s = "cyc" => op.name = "threw"

\* No effect function runs in a step that starts and ends inside a batch.
BatchDeferred ==
    (g.batchDepth > 0 /\ g'.batchDepth > 0) => g'.runs = g.runs

\* The step that closes the outermost batch.
BatchCloses == g.batchDepth = 1 /\ g'.batchDepth = 0

C22_LastRequesterWins ==
    [][g'.async # g.async
        => \/ (g'.async.value = g.async.value /\ g'.async.gen = g.async.gen)
           \/ /\ op'.name = "resolve"
              /\ op'.n = g.async.epoch
              /\ g'.async.value = op'.v
              /\ g'.async.gen = op'.n]_vars

\* The later request resolved first and was published; the earlier one has
\* now completed with another result, which was discarded.
C22_Witness ==
    /\ op.name = "resolve"
    /\ op.n < g.async.epoch
    /\ g.async.gen = g.async.epoch
    /\ op.v # g.async.value


\* The published object stays the same one whenever the value published
\* after a step is deeply equal to the one published before.
EqReferenceKept ==
    (g.cval["eq"] # Undef /\ DeepEqual(g'.cval["eq"], g.cval["eq"]))
        => g'.cval["eq"] = g.cval["eq"]

\* The effect that reads the computed does not run in a step that leaves
\* the published object in place.
EqDependentQuiet ==
    (g.alive["eEq"] /\ g'.alive["eEq"] /\ g'.cval["eq"] = g.cval["eq"])
        => g'.runs["eEq"] = g.runs["eEq"]

\* A read that follows a read does not run the getter.
EqRereadCached ==
    (op.name = "read" /\ op'.name = "read") => g'.evals = g.evals

WouldRun(A, i) == slotRead(A, i).ran # {}

\* C24: after any update of the input array (same length, grown or shrunk)
\* the result at each index is the projection of the input element at that
\* index; the update itself runs no projection, and a slot that had
\* nothing to run before an update that leaves its element unchanged has
\* nothing to run after it: only changed and new slots re-execute.
C24_ComputedArray ==
    /\ [](\A i \in 1..Len(g.arr.input) :
            slotRead(g.arr, i).slots[i].val = Project(g.arr.input[i]))
    /\ [][op'.name = "set"
            => /\ g'.arr.ran = {}
               /\ \A i \in 1..Len(g'.arr.input) :
                    (/\ i <= Len(g.arr.input)
                     /\ g.arr.input[i] = g'.arr.input[i]
                     /\ ~WouldRun(g.arr, i))
                        => ~WouldRun(g'.arr, i)]_vars

\* An update of an input of two elements has changed the first and left
\* the second: the first slot is stale, still holding the projection of
\* the old element, and the second has nothing to run.
C24_Witness ==
    /\ op.name = "set"
    /\ op.n = 2
    /\ Len(g.arr.input) = 2
    /\ g.arr.slots[1].stale
    /\ g.arr.slots[1].src \notin {Undef, g.arr.input[1]}
    /\ ~WouldRun(g.arr, 2)
    /\ g.arr.slots[2].src = g.arr.input[2]


\* C25: a write to signal b while a is not 0, so that the latest run of the
\* effect a() || b() and the latest run of the computed a() || b() that is
\* up to date did not read b, does not re-run the effect, and neither
\* marks the computed stale nor runs its function.
C25_DependenciesRebuilt ==
    [][(op'.name = "write" /\ op'.s = "b" /\ g.val["a"] # Num(0))
        => /\ g.alive["eCond"] => g'.runs["eCond"] = g.runs["eCond"]
           /\ g.cflag["cond"] = "clean"
                 => (g'.cflag["cond"] = "clean" /\ g'.evals = 0)]_vars

\* The effect was created while a was 0, so that its first run read b, and
\* ran again when a changed; the computed is up to date with a; and now a
\* changing write to b has left the effect's runs as they were.
C25_Witness ==
    /\ op.name = "write"
    /\ op.s = "b"
    /\ op.n = 1
    /\ g.val["a"] = Num(1)
    /\ g.alive["eCond"]
    /\ g.runs["eCond"] = 2
    /\ g.edeps["eCond"] = {"a"}
    /\ g.cflag["cond"] = "clean"
    /\ g.cdeps["cond"] = {"a"}
    /\ g.cval["cond"] = Num(1)


\* A write while no effect reads the computed runs no getter.
WriteIsLazy ==
    (op'.name = "write" /\ ~g.alive["eWatch"]) => g'.evals = 0

C27_MarkThenVerify ==
    [][(op'.name = "write" /\ g.alive["eWatch"])
        => /\ g'.runs["eWatch"] \in {g.runs["eWatch"], g.runs["eWatch"] + 1}
           /\ g'.runs["eWatch"] # g.runs["eWatch"]
                 => g'.cval["cond"] # g.cval["cond"]]_vars

\* A write has changed a from 0 to 1 while b is 1: the computed a() || b()
\* was recomputed in the call, to the value 1 it had, and the effect has
\* not run since its creation.
C27_Witness ==
    /\ op.name = "write"
    /\ op.s = "a"
    /\ op.n = 1
    /\ g.val["a"] = Num(1)
    /\ g.val["b"] = Num(1)
    /\ g.evals = 1
    /\ g.cval["cond"] = Num(1)
    /\ g.alive["eWatch"]
    /\ g.runs["eWatch"] = 1


\* C28: a setter call that writes to a signal the value it holds (the same
\* number, undefined, null, or the same object) changes nothing: the value
\* stays, no effect runs, no flag of a computed or an effect changes, and
\* the subscriber of useSignal / useSignalValue is not notified.
C28_SameValueWriteIsNoOp ==
    [][(op'.name = "set" /\ op'.v = g.val[op'.s])
        => /\ g'.val = g.val
           /\ g'.runs = g.runs
           /\ g'.cflag = g.cflag
           /\ g'.cval = g.cval
           /\ g'.eflag = g.eflag
           /\ g'.notified = g.notified
           /\ g'.needsRender = g.needsRender]_vars

\* The component is mounted on signal a, which has not changed since; the
\* last call was a setter call writing the 0 it holds, and the effects of
\* the hooks have run once each.
C28_Witness ==
    /\ op.name = "set"
    /\ op.s = "a"
    /\ op.v = Num(0)
    /\ g.val["a"] = Num(0)
    /\ g.hooked = "a"
    /\ phase = "committed"
    /\ hits = 0
    /\ g.alive["eBridge"]
    /\ g.alive["eHook"]
    /\ g.runs["eBridge"] = 1
    /\ g.runs["eHook"] = 1
    /\ ~g.needsRender


\* C29: in every state of the component, each hook (the subscribe effect of
\* useSignal / useSignalValue, the effect of useSignalEffect) has exactly
\* one running effect from the commit of the mount to the unmount, none
\* before and after, and never was an effect created for a hook while the
\* one before was still running, whatever re-renders were committed with
\* a new subscribe function or a new fn.
C29_OneEffectPerHook ==
    /\ Mounted => (g.alive["eBridge"] /\ g.alive["eHook"])
    /\ ~Mounted => (~g.alive["eBridge"] /\ ~g.alive["eHook"])
    /\ ~g.leaked

\* A write has re-run both effects and a re-render has been committed
\* since: the subscribe effect is a replacement at its first run, next to
\* the effect of useSignalEffect at its second.
C29_Witness ==
    /\ phase = "committed"
    /\ g.alive["eBridge"]
    /\ g.alive["eHook"]
    /\ g.runs["eHook"] = 2
    /\ g.runs["eBridge"] = 1
    /\ g.cleans = 1
    /\ ~g.leaked


\* C30: in useSignalEffect no cleanup fn returned is called a second time,
\* fn does not run once the unmount has called the cleanup, and after the
\* unmount no cleanup that a run of fn returned is left uncalled; also
\* when fn throws on a re-run, and when the cleanup writes to the signal
\* fn reads.
C30_CleanupExactlyOnce ==
    /\ ~g.fx.twice
    /\ ~g.fx.after
    /\ phase = "unmounted" => ~(g.fx.pending /\ g.fx.calls = 0)

\* The value a read of the wrapped node returns now.
Current == IF g.hooked \in Signals THEN g.val[g.hooked] ELSE Expected(g.hooked)

\* The component shows a value that is not the wrapped node's.
Stale == phase # "unmounted" /\ hookValue # Current

\* No counter's cap stands in the way of a commit or of a re-render.
CommitPossible ==
    /\ phase = "mounting" => Bounded(commitMount(g, hookValue))
    /\ phase = "rerendered" => Bounded(commitUpdate(g, hookValue, FALSE))
    /\ phase = "committed" => Bounded(renderHook(g).g)

\* C31: no update is lost across the render/subscribe gap.  A commit that
\* finds the rendered value out of date (the signal was written after the
\* render took its snapshot and before subscribe, or between unsubscribe
\* and the next subscribe) leaves a re-render scheduled, and a component
\* showing an out-of-date value is eventually re-rendered with the current
\* one (or unmounted).
C31_NoLostUpdate ==
    /\ []CommitPossible
    /\ [][(phase \in {"mounting", "rerendered"} /\ phase' = "committed"
             /\ Stale') => g'.needsRender]_vars
    /\ [](phase = "committed" /\ Stale => g.needsRender)
    /\ (Stale ~> ~Stale)

\* A committed component whose rendered value is out of date although its
\* subscription was never notified of a change (the write came before the
\* subscribe), with the re-render scheduled.
C31_Witness ==
    /\ phase = "committed"
    /\ Stale
    /\ g.hooked = "a"
    /\ g.notified = 1
    /\ g.runs["eBridge"] = 1
    /\ g.needsRender

\* C32: while the component using useSignalScope is mounted, the effect of
\* its current scope is active (alive and subscribed to its signal), also
\* after React ran the cleanup and the setup of the hook's effect again
\* with the same memoized stopScope.
C32_ScopeActiveWhileMounted ==
    phase = "committed" =>
        /\ g.memoScope # "none"
        /\ g.alive[g.memoScope]
        /\ "a" \in g.edeps[g.memoScope]

\* C33: a hook setter called with an updater function inside a running
\* effect adds no dependency edge: the effect whose function does nothing
\* but call the setter, setA(prev => prev + 1), is not subscribed to the
\* signal the setter read to compute the new value.
C33_SetterAddsNoEdge ==
    g.alive["eSelf"] =>
        /\ "a" \notin g.edeps["eSelf"]
        /\ "eSelf" \notin EffSubs(g, "a")

=============================================================================
